---------------------------- MODULE Spec2Model ----------------------------
(***************************************************************************)
(* Three pieces of editor UI glue:                                         *)
(*   - crates/git_hosting_providers/src/settings.rs: the git hosting       *)
(*     provider registry re-derived from the settings store;               *)
(*   - crates/breadcrumbs/src/breadcrumbs.rs: the breadcrumb toolbar item  *)
(*     (path truncation in render, set_active_pane_item, item events);     *)
(*   - crates/git_ui/src/diff_view_format_selector.rs: the modal picker    *)
(*     of the editor's diff view format.                                   *)
(* Each piece has its own specification (SpecProviders, SpecRender,        *)
(* SpecToolbar, SpecSelector) over the variables it owns.                  *)
(***************************************************************************)
EXTENDS Integers, Sequences, FiniteSets, TLC

VARIABLES
    \* ---- git_hosting_providers/src/settings.rs
    git_hosting_providers,  \* GitHostingProviderSettings::get_global(cx).git_hosting_providers
    local_settings,         \* SettingsStore local values, by worktree (get_all_locals order)
    setting_providers,      \* GitHostingProviderRegistry: the providers sourced from settings
    observing,              \* the observe_global::<SettingsStore> callback is registered
    pending,                \* a SettingsStore change notification is queued for the observer
    passes,                 \* history: passes since the provider lists last changed (0, 1, 2 = more)
    \* ---- breadcrumbs/src/breadcrumbs.rs
    pane_focused,           \* Breadcrumbs.pane_focused
    active_item,            \* Breadcrumbs.active_item (None or an item)
    subscriptions,          \* items whose event subscription (held by Breadcrumbs) is alive
    notified,               \* cx.notify() was called since the last render
    returned,               \* what the last set_active_pane_item call returned
    emitted,                \* the ChangeLocation events the last step emitted
    last_step,              \* history: the call or item event the last step handled
    item_breadcrumbs,       \* per item: ItemHandle::breadcrumbs, Nothing or Some(path length)
    item_location,          \* per item: what ItemHandle::breadcrumb_location returns
    rendered,               \* the segment list the last render displayed
    render_input,           \* history: Some(segments the last render read), or Nothing
    splice_panicked,        \* Vec::splice was called with a range out of bounds
    \* ---- git_ui/src/diff_view_format_selector.rs
    diff_view_format,       \* Editor::diff_view_format()
    modal_open,             \* the DiffViewFormatSelector modal (and its delegate) is alive
    selected_index,         \* DiffViewFormatSelectorDelegate.selected_index
    last_ix,                \* history: Some(argument of the last set_selected_index)
    dismiss_events,         \* number of DismissEvent emissions of the open selector
    last_call,              \* history: the delegate call the last step made
    index_panicked          \* formats[selected_index] was out of bounds

providerVars == <<git_hosting_providers, local_settings, setting_providers,
                  observing, pending, passes>>
breadcrumbVars == <<pane_focused, active_item, subscriptions, notified, returned,
                    emitted, last_step, item_breadcrumbs, item_location,
                    rendered, render_input, splice_panicked>>
selectorVars == <<diff_view_format, modal_open, selected_index, last_ix,
                  dismiss_events, last_call, index_panicked>>
vars == <<providerVars, breadcrumbVars, selectorVars>>

\* Option of a string-valued type: None, or the value itself.
None == "None"

\* Option of a number or a sequence: Nothing, or Some(x).
Nothing == <<>>

Some(x) == <<x>>

(***************************************************************************)
(* Bounds of the model.                                                    *)
(***************************************************************************)
MaxProviders == 3     \* provider entries over the global list and all local lists
MaxPathLen == 14      \* longest breadcrumb path an item reports
MaxIx == 4            \* largest index handed to set_selected_index
MaxDismiss == 2       \* DismissEvent emissions recorded while a selector is open

(***************************************************************************)
(*                 git_hosting_providers/src/settings.rs                   *)
(***************************************************************************)

\* enum GitHostingProviderKind
GitHostingProviderKind == {"Github", "Gitlab", "Bitbucket"}

\* Worktrees that can carry local settings; get_all_locals lists them in this order.
WorktreeIds == {1, 2}

\* struct GitHostingProviderConfig: the entries a settings file can declare.
\* Two entries of different kinds share a name, one of them has a base_url
\* that parsing normalises, and the third has a base_url that is no URL.
GitHostingProviderConfig ==
    { [provider |-> "Github",    base_url |-> "https://github.com",    name |-> "GH"],
      [provider |-> "Bitbucket", base_url |-> "HTTPS://Code.Big.com",  name |-> "GH"],
      [provider |-> "Gitlab",    base_url |-> "not a url",             name |-> "GL"] }

\* Url::parse on the base_url strings above: Err for a string with no scheme,
\* otherwise the serialised URL (scheme and host lower-cased, path "/").
UrlParse(base_url) ==
    CASE base_url = "https://github.com"   -> [ok |-> TRUE,  url |-> "https://github.com/"]
      [] base_url = "HTTPS://Code.Big.com" -> [ok |-> TRUE,  url |-> "https://code.big.com/"]
      [] OTHER -> [ok |-> FALSE, url |-> "relative URL without a base"]

\* ResultExt::log_err: Ok(url) -> Some(url), Err(_) -> None (the error is logged).
log_err(result) == IF result.ok THEN result.url ELSE None

\* Bitbucket::new / Github::new / Gitlab::new (&provider.name, url), by the match
\* on provider.provider.
\* Variant: every arm of the match builds a Github provider.
new_provider_always_github(provider, url) ==
    [kind |-> "Github", name |-> provider.name, base_url |-> url]

new_provider(provider, url) ==
    CASE provider.provider = "Bitbucket" ->
            [kind |-> "Bitbucket", name |-> provider.name, base_url |-> url]
      [] provider.provider = "Github" ->
            [kind |-> "Github", name |-> provider.name, base_url |-> url]
      [] provider.provider = "Gitlab" ->
            [kind |-> "Gitlab", name |-> provider.name, base_url |-> url]

\* The filter_map closure over a sequence of entries: an entry whose base_url
\* does not parse yields nothing (the `?` on the Option), any other yields
\* its provider.
\* Variant: the first base_url that does not parse ends the whole sequence.
RECURSIVE filter_map_abort(_)
filter_map_abort(providers) ==
    IF providers = <<>> THEN <<>>
    ELSE LET url == log_err(UrlParse(Head(providers).base_url))
         IN  IF url = None THEN <<>>
             ELSE <<new_provider(Head(providers), url)>> \o filter_map_abort(Tail(providers))

RECURSIVE filter_map(_)
filter_map(providers) ==
    IF providers = <<>> THEN <<>>
    ELSE LET url == log_err(UrlParse(Head(providers).base_url))
         IN  (IF url = None THEN <<>> ELSE <<new_provider(Head(providers), url)>>)
             \o filter_map(Tail(providers))

\* local_values: get_all_locals().into_iter().flat_map(providers.git_hosting_providers)
RECURSIVE flat_map(_, _)
flat_map(locals, worktrees) ==
    IF worktrees = {} THEN <<>>
    ELSE LET first == CHOOSE w \in worktrees : \A v \in worktrees : w <= v
         IN  locals[first] \o flat_map(locals, worktrees \ {first})

local_values(locals) == flat_map(locals, WorktreeIds)

\* settings.git_hosting_providers.clone().into_iter().chain(local_values)
\* Variant: the local entries are chained in front of the global ones.
chain_locals_first(globals, locals) == locals \o globals

chain(globals, locals) == globals \o locals

\* GitHostingProviderRegistry::set_setting_providers: replaces the providers
\* that came from settings by the given sequence.
\* Variant: the given providers are added to those already held.
set_setting_providers_extend(registry, iter) == registry \o iter

set_setting_providers(registry, iter) == iter

\* The body of update_git_hosting_providers_from_settings.
update_git_hosting_providers_from_settings ==
    /\ setting_providers' =
          set_setting_providers(
              setting_providers,
              filter_map(chain(git_hosting_providers, local_values(local_settings))))
    /\ passes' = IF passes < 2 THEN passes + 1 ELSE 2

\* init -> init_git_hosting_provider_settings: one eager pass, then the
\* observer is registered.
\* Variant: the observer is registered without the eager pass.
init_without_eager_pass ==
    /\ ~observing
    /\ observing' = TRUE
    /\ pending' = FALSE
    /\ UNCHANGED <<git_hosting_providers, local_settings, setting_providers, passes>>
    /\ UNCHANGED <<breadcrumbVars, selectorVars>>

init_git_hosting_provider_settings ==
    /\ ~observing
    /\ update_git_hosting_providers_from_settings
    /\ observing' = TRUE
    /\ pending' = FALSE
    /\ UNCHANGED <<git_hosting_providers, local_settings>>
    /\ UNCHANGED <<breadcrumbVars, selectorVars>>

\* The observe_global::<SettingsStore> callback, run for a queued notification.
observe_global ==
    /\ observing
    /\ pending
    /\ update_git_hosting_providers_from_settings
    /\ pending' = FALSE
    /\ UNCHANGED <<git_hosting_providers, local_settings, observing>>
    /\ UNCHANGED <<breadcrumbVars, selectorVars>>

TotalProviders == Len(git_hosting_providers) + Len(local_values(local_settings))

\* The settings store changes: a global (user/default) settings file gains or
\* loses a provider entry.
SetGlobalProviders ==
    /\ \/ \E c \in GitHostingProviderConfig :
             /\ TotalProviders < MaxProviders
             /\ git_hosting_providers' = Append(git_hosting_providers, c)
       \/ /\ git_hosting_providers # <<>>
          /\ git_hosting_providers' = Tail(git_hosting_providers)
    /\ pending' = observing
    /\ passes' = 0
    /\ UNCHANGED <<local_settings, setting_providers, observing>>
    /\ UNCHANGED <<breadcrumbVars, selectorVars>>

\* The settings store changes: a worktree's local settings gain or lose an entry.
SetLocalProviders ==
    /\ \E w \in WorktreeIds :
          \/ \E c \in GitHostingProviderConfig :
                /\ TotalProviders < MaxProviders
                /\ local_settings' = [local_settings EXCEPT ![w] = Append(@, c)]
          \/ /\ local_settings[w] # <<>>
             /\ local_settings' = [local_settings EXCEPT ![w] = Tail(@)]
    /\ pending' = observing
    /\ passes' = 0
    /\ UNCHANGED <<git_hosting_providers, setting_providers, observing>>
    /\ UNCHANGED <<breadcrumbVars, selectorVars>>

\* The settings store changes in a setting other than the provider lists: the
\* observer of the whole store is notified all the same.
SetOtherSetting ==
    /\ observing
    /\ ~pending
    /\ pending' = TRUE
    /\ UNCHANGED <<git_hosting_providers, local_settings, setting_providers,
                   observing, passes>>
    /\ UNCHANGED <<breadcrumbVars, selectorVars>>

ProvidersInit ==
    /\ git_hosting_providers = <<>>
    /\ local_settings = [w \in WorktreeIds |-> <<>>]
    /\ setting_providers = <<>>
    /\ observing = FALSE
    /\ pending = FALSE
    /\ passes = 0


ProvidersNext ==
    \/ init_git_hosting_provider_settings
    \/ observe_global
    \/ SetGlobalProviders
    \/ SetLocalProviders
    \/ SetOtherSetting

(***************************************************************************)
(*                     breadcrumbs/src/breadcrumbs.rs                      *)
(***************************************************************************)

\* The items a pane can show (dyn ItemHandle).
Items == {"item1", "item2"}

\* enum ToolbarItemLocation (workspace): what breadcrumb_location can return.
ToolbarItemLocation == {"Hidden", "PrimaryLeft", "Secondary"}

\* enum ItemEvent (workspace::item)
ItemEvent == {"UpdateBreadcrumbs", "UpdateTab", "Edit"}

MAX_SEGMENTS == 12

\* Segment k of an item's breadcrumb path (BreadcrumbText); texts are distinct
\* and positive so that each displayed segment can be traced to its position.
BreadcrumbText(k) == [text |-> k, font |-> "item"]

\* The BreadcrumbText render inserts: text "⋯" (written 0), no highlights, no font.
Ellipsis == [text |-> 0, font |-> None]

\* active_item.breadcrumbs(theme, cx) for an item that reports n segments.
breadcrumbs(n) == [k \in 1..n |-> BreadcrumbText(k)]

cmp_min(a, b) == IF a <= b THEN a ELSE b

cmp_max(a, b) == IF a >= b THEN a ELSE b

\* usize::saturating_sub
saturating_sub(a, b) == IF a >= b THEN a - b ELSE 0

prefix_end_ix(segments) == cmp_min(Len(segments), MAX_SEGMENTS \div 2)

suffix_start_ix(segments) ==
    cmp_max(prefix_end_ix(segments),
            saturating_sub(Len(segments), MAX_SEGMENTS \div 2))

\* Vec::splice(start..end, Some(item)) panics unless start <= end <= len.
splice_in_bounds(vec, start, end) == start <= end /\ end <= Len(vec)

\* Vec::splice(start..end, Some(item)): elements start..end (0-based, end
\* excluded) are replaced by item.
\* Variant: the item is inserted and nothing is removed.
splice_insert_only(vec, start, end, item) ==
    SubSeq(vec, 1, start) \o <<item>> \o SubSeq(vec, start + 1, Len(vec))

splice(vec, start, end, item) ==
    SubSeq(vec, 1, start) \o <<item>> \o SubSeq(vec, end + 1, Len(vec))

\* `if suffix_start_ix > prefix_end_ix`
\* Variant: >= for >.
must_splice_ge(prefix_end, suffix_start) == suffix_start >= prefix_end

must_splice(prefix_end, suffix_start) == suffix_start > prefix_end

\* Lines 50-64 of render: the segments after the optional splice.
truncated(segments) ==
    IF must_splice(prefix_end_ix(segments), suffix_start_ix(segments))
    THEN splice(segments, prefix_end_ix(segments), suffix_start_ix(segments), Ellipsis)
    ELSE segments

\* Breadcrumbs::render: nothing is displayed without an active item or when
\* the item has no breadcrumbs; otherwise the truncated path.
render ==
    /\ notified' = FALSE
    /\ last_step' = [op |-> "render"]
    /\ emitted' = <<>>
    /\ IF active_item = None
       THEN rendered' = <<>> /\ render_input' = Nothing /\ UNCHANGED splice_panicked
       ELSE IF item_breadcrumbs[active_item] = Nothing
       THEN rendered' = <<>> /\ render_input' = Nothing /\ UNCHANGED splice_panicked
       ELSE LET segments == breadcrumbs(item_breadcrumbs[active_item][1])
            IN  /\ render_input' = Some(segments)
                /\ IF /\ must_splice(prefix_end_ix(segments), suffix_start_ix(segments))
                      /\ ~splice_in_bounds(segments, prefix_end_ix(segments),
                                           suffix_start_ix(segments))
                   THEN splice_panicked' = TRUE /\ rendered' = <<>>
                   ELSE rendered' = truncated(segments) /\ UNCHANGED splice_panicked
    /\ UNCHANGED <<pane_focused, active_item, subscriptions, returned,
                   item_breadcrumbs, item_location>>
    /\ UNCHANGED <<providerVars, selectorVars>>

\* `self.subscription = Some(item.subscribe_to_item_events(..))`: the new
\* subscription replaces the old one, which is dropped (and so cancelled).
assign_subscription(held, item) == {item}

\* ToolbarItemView::set_active_pane_item
\* Variant: the early return for None comes before active_item is cleared.
set_active_pane_item_keep(active_pane_item) ==
    /\ notified' = TRUE
    /\ last_step' = [op |-> "set_active_pane_item", item |-> active_pane_item]
    /\ emitted' = <<>>
    /\ IF active_pane_item = None
       THEN /\ UNCHANGED active_item
            /\ returned' = "Hidden"
            /\ UNCHANGED subscriptions
       ELSE /\ subscriptions' = assign_subscription(subscriptions, active_pane_item)
            /\ active_item' = active_pane_item
            /\ returned' = item_location[active_pane_item]
    /\ UNCHANGED <<pane_focused, item_breadcrumbs, item_location, rendered,
                   render_input, splice_panicked>>
    /\ UNCHANGED <<providerVars, selectorVars>>

set_active_pane_item(active_pane_item) ==
    /\ notified' = TRUE
    /\ last_step' = [op |-> "set_active_pane_item", item |-> active_pane_item]
    /\ emitted' = <<>>
    /\ IF active_pane_item = None
       THEN /\ active_item' = None
            /\ returned' = "Hidden"
            /\ UNCHANGED subscriptions
       ELSE /\ subscriptions' = assign_subscription(subscriptions, active_pane_item)
            /\ active_item' = active_pane_item
            /\ returned' = item_location[active_pane_item]
    /\ UNCHANGED <<pane_focused, item_breadcrumbs, item_location, rendered,
                   render_input, splice_panicked>>
    /\ UNCHANGED <<providerVars, selectorVars>>

SetActivePaneItem == \E active_pane_item \in Items \cup {None} :
    set_active_pane_item(active_pane_item)

\* The closure given to subscribe_to_item_events, run for an event of an item
\* whose subscription is alive.
item_event_callback(item, event) ==
    /\ last_step' = [op |-> "item_event", item |-> item, event |-> event]
    /\ IF event = "UpdateBreadcrumbs"
       THEN /\ notified' = TRUE
            /\ IF active_item # None
               THEN emitted' = <<item_location[active_item]>>
               ELSE emitted' = <<>>
       ELSE /\ emitted' = <<>>
            /\ UNCHANGED notified
    /\ UNCHANGED <<pane_focused, active_item, subscriptions, returned,
                   item_breadcrumbs, item_location, rendered, render_input,
                   splice_panicked>>
    /\ UNCHANGED <<providerVars, selectorVars>>

ItemEmitsEvent == \E item \in subscriptions : \E event \in ItemEvent :
    item_event_callback(item, event)

\* ToolbarItemView::pane_focus_update
pane_focus_update(focused) ==
    /\ pane_focused' = focused
    /\ last_step' = [op |-> "pane_focus_update"]
    /\ emitted' = <<>>
    /\ UNCHANGED <<active_item, subscriptions, notified, returned,
                   item_breadcrumbs, item_location, rendered, render_input,
                   splice_panicked>>
    /\ UNCHANGED <<providerVars, selectorVars>>

PaneFocusUpdate == \E focused \in BOOLEAN : pane_focus_update(focused)

\* An item's breadcrumb_location changes (ItemHandle::breadcrumb_location).
ItemLocationChanges == \E item \in Items : \E location \in ToolbarItemLocation :
    /\ item_location[item] # location
    /\ item_location' = [item_location EXCEPT ![item] = location]
    /\ last_step' = [op |-> "item_location"]
    /\ emitted' = <<>>
    /\ UNCHANGED <<pane_focused, active_item, subscriptions, notified, returned,
                   item_breadcrumbs, rendered, render_input, splice_panicked>>
    /\ UNCHANGED <<providerVars, selectorVars>>

\* An item's breadcrumb path changes (ItemHandle::breadcrumbs): no path, or a
\* path of up to MaxPathLen segments.
ItemBreadcrumbsChange == \E item \in Items : \E path \in {Nothing} \cup {Some(n) : n \in 0..MaxPathLen} :
    /\ item_breadcrumbs[item] # path
    /\ item_breadcrumbs' = [item_breadcrumbs EXCEPT ![item] = path]
    /\ last_step' = [op |-> "item_breadcrumbs"]
    /\ emitted' = <<>>
    /\ UNCHANGED <<pane_focused, active_item, subscriptions, notified, returned,
                   item_location, rendered, render_input, splice_panicked>>
    /\ UNCHANGED <<providerVars, selectorVars>>

\* Breadcrumbs::new, and the items as the workspace first shows them.
BreadcrumbsInit ==
    /\ pane_focused = FALSE
    /\ active_item = None
    /\ subscriptions = {}
    /\ notified = FALSE
    /\ returned = None
    /\ emitted = <<>>
    /\ last_step = [op |-> "new"]
    /\ item_breadcrumbs = [item \in Items |-> Nothing]
    /\ item_location = [item \in Items |-> "PrimaryLeft"]
    /\ rendered = <<>>
    /\ render_input = Nothing
    /\ splice_panicked = FALSE

RenderNext ==
    \/ SetActivePaneItem
    \/ ItemBreadcrumbsChange
    \/ render

ToolbarNext ==
    \/ SetActivePaneItem
    \/ ItemEmitsEvent
    \/ PaneFocusUpdate
    \/ ItemLocationChanges

(***************************************************************************)
(*                git_ui/src/diff_view_format_selector.rs                  *)
(***************************************************************************)

\* enum DiffViewFormat (editor)
DiffViewFormat == {"Unified", "AdditionsOnly", "DeletionsOnly"}

\* DiffViewFormatSelectorDelegate.formats; formats[i] of the code is formats[i + 1] here.
formats == <<"Unified", "AdditionsOnly", "DeletionsOnly">>

\* formats.iter().position(|&f| f == current)
position(current) ==
    IF \E i \in 1..Len(formats) : formats[i] = current
    THEN Some((CHOOSE i \in 1..Len(formats) :
                  /\ formats[i] = current
                  /\ \A j \in 1..(i - 1) : formats[j] # current) - 1)
    ELSE Nothing

\* Option::unwrap_or
unwrap_or(option, default) == IF option = Nothing THEN default ELSE option[1]

\* `ix.min(self.formats.len() - 1)`
\* Variant: the index is stored as given.
clamp_index_unclamped(ix) == ix

clamp_index(ix) == cmp_min(ix, Len(formats) - 1)

\* open -> toggle_modal -> DiffViewFormatSelector::new ->
\* DiffViewFormatSelectorDelegate::new(.., current)
new_selected_index(current) == unwrap_or(position(current), 0)

open ==
    /\ ~modal_open
    /\ modal_open' = TRUE
    /\ selected_index' = new_selected_index(diff_view_format)
    /\ last_ix' = Nothing
    /\ dismiss_events' = 0
    /\ last_call' = "new"
    /\ UNCHANGED <<diff_view_format, index_panicked>>
    /\ UNCHANGED <<providerVars, breadcrumbVars>>

\* PickerDelegate::set_selected_index
set_selected_index(ix) ==
    /\ modal_open
    /\ selected_index' = clamp_index(ix)
    /\ last_ix' = Some(ix)
    /\ last_call' = "set_selected_index"
    /\ UNCHANGED <<diff_view_format, modal_open, dismiss_events, index_panicked>>
    /\ UNCHANGED <<providerVars, breadcrumbVars>>

SetSelectedIndex == \E ix \in 0..MaxIx : set_selected_index(ix)

\* PickerDelegate::confirm: formats[selected_index] panics out of bounds;
\* otherwise the editor takes the format and the selector emits DismissEvent.
confirm ==
    /\ modal_open
    /\ dismiss_events < MaxDismiss
    /\ last_call' = "confirm"
    /\ IF selected_index >= Len(formats)
       THEN /\ index_panicked' = TRUE
            /\ UNCHANGED <<diff_view_format, dismiss_events>>
       ELSE /\ diff_view_format' = formats[selected_index + 1]
            /\ dismiss_events' = dismiss_events + 1
            /\ UNCHANGED index_panicked
    /\ UNCHANGED <<modal_open, selected_index, last_ix>>
    /\ UNCHANGED <<providerVars, breadcrumbVars>>

\* PickerDelegate::dismissed: the selector emits DismissEvent.
dismissed ==
    /\ modal_open
    /\ dismiss_events < MaxDismiss
    /\ last_call' = "dismissed"
    /\ dismiss_events' = dismiss_events + 1
    /\ UNCHANGED <<diff_view_format, modal_open, selected_index, last_ix,
                   index_panicked>>
    /\ UNCHANGED <<providerVars, breadcrumbVars>>

\* The workspace hides a ModalView that emitted DismissEvent; the selector,
\* its picker and the delegate are dropped.
HideModal ==
    /\ modal_open
    /\ dismiss_events > 0
    /\ modal_open' = FALSE
    /\ last_call' = None
    /\ UNCHANGED <<diff_view_format, selected_index, last_ix, dismiss_events,
                   index_panicked>>
    /\ UNCHANGED <<providerVars, breadcrumbVars>>

\* Editor::set_diff_view_format called by another command of the editor.
EditorSetsDiffViewFormat == \E format \in DiffViewFormat :
    /\ diff_view_format # format
    /\ diff_view_format' = format
    /\ last_call' = None
    /\ UNCHANGED <<modal_open, selected_index, last_ix, dismiss_events,
                   index_panicked>>
    /\ UNCHANGED <<providerVars, breadcrumbVars>>

\* No selector is open; the editor shows the default format.
SelectorInit ==
    /\ diff_view_format = "Unified"
    /\ modal_open = FALSE
    /\ selected_index = 0
    /\ last_ix = Nothing
    /\ dismiss_events = 0
    /\ last_call = None
    /\ index_panicked = FALSE

SelectorNext ==
    \/ open
    \/ SetSelectedIndex
    \/ confirm
    \/ dismissed
    \/ HideModal
    \/ EditorSetsDiffViewFormat

(***************************************************************************)
(*                            Specifications                               *)
(***************************************************************************)

Init == ProvidersInit /\ BreadcrumbsInit /\ SelectorInit

\* The settings observer: a queued notification is eventually delivered
\* (the application flushes its effects after every update).
SpecProviders == Init /\ [][ProvidersNext]_vars /\ WF_vars(observe_global)

SpecRender == Init /\ [][RenderNext]_vars

SpecToolbar == Init /\ [][ToolbarNext]_vars

SpecSelector == Init /\ [][SelectorNext]_vars

(***************************************************************************)
(*            Properties of the provider registry (SpecProviders)          *)
(***************************************************************************)

\* The entries of the current configuration, in declaration order: the global
\* list, then the list of each worktree.
AllEntries == git_hosting_providers \o local_settings[1] \o local_settings[2]

Parses(entry) == UrlParse(entry.base_url).ok

\* The provider an entry with a parseable base_url stands for.
InstanceOf(entry) ==
    [kind |-> entry.provider, name |-> entry.name,
     base_url |-> UrlParse(entry.base_url).url]

ValidEntries(entries) == SelectSeq(entries, Parses)

\* The registry the current configuration resolves to.
ExpectedRegistry ==
    LET valid == ValidEntries(git_hosting_providers)
                 \o ValidEntries(local_settings[1]) \o ValidEntries(local_settings[2])
    IN  [i \in 1..Len(valid) |-> InstanceOf(valid[i])]

\* A resolution pass has seen the current provider lists.
Resolved == passes >= 1

Count(seq, x) == Cardinality({i \in DOMAIN seq : seq[i] = x})

\* C1: a pass is never blocked (init and the observer can always run), and
\* after it every entry whose base_url parses is in the registry, every
\* instance of the registry comes from such an entry, and there are as many
\* instances as parseable entries (none when no entry parses), wherever the
\* unparseable entries stand.
C1_InvalidEntriesNeverBlockValidOnes ==
    /\ ~observing => ENABLED init_git_hosting_provider_settings
    /\ (observing /\ pending) => ENABLED observe_global
    /\ Resolved =>
          /\ \A i \in DOMAIN AllEntries :
                Parses(AllEntries[i]) =>
                   \E j \in DOMAIN setting_providers :
                      setting_providers[j] = InstanceOf(AllEntries[i])
          /\ \A j \in DOMAIN setting_providers :
                \E i \in DOMAIN AllEntries :
                   /\ Parses(AllEntries[i])
                   /\ setting_providers[j] = InstanceOf(AllEntries[i])
          /\ Len(setting_providers) =
                Cardinality({i \in DOMAIN AllEntries : Parses(AllEntries[i])})
          /\ (\A i \in DOMAIN AllEntries : ~Parses(AllEntries[i]))
                => setting_providers = <<>>

\* A pass has resolved lists in which an unparseable entry precedes a
\* parseable one, in the global list and again in front of a local one.
C1_Witness ==
    /\ Resolved
    /\ observing
    /\ Len(git_hosting_providers) = 2
    /\ ~Parses(git_hosting_providers[1])
    /\ Parses(git_hosting_providers[2])
    /\ Len(local_settings[2]) = 1
    /\ ~Parses(local_settings[2][1])
    /\ Len(setting_providers) = 1

\* C2: after a pass the registry lists the valid global entries in declaration
\* order, then the valid local entries in declaration order, worktree by
\* worktree in the settings store's order.
C2_GlobalThenLocalInDeclarationOrder ==
    Resolved => setting_providers = ExpectedRegistry

\* Two different valid global entries [A, B] and a valid local entry [C]: the
\* registry is [A, B, C].
C2_Witness ==
    /\ Resolved
    /\ Len(git_hosting_providers) = 2
    /\ Len(local_settings[1]) = 1
    /\ git_hosting_providers[1] # git_hosting_providers[2]
    /\ \A i \in DOMAIN AllEntries : Parses(AllEntries[i])
    /\ setting_providers = <<InstanceOf(git_hosting_providers[1]),
                             InstanceOf(git_hosting_providers[2]),
                             InstanceOf(local_settings[1][1])>>

\* C3: after a pass the registry holds, for every provider, as many instances
\* as there are parseable entries with that kind, name and URL: one instance
\* per valid entry, of the entry's kind, and none merged or dropped.
C3_OneInstancePerValidEntry ==
    Resolved =>
       /\ \A entry \in GitHostingProviderConfig :
             Parses(entry) =>
                Count(setting_providers, InstanceOf(entry)) =
                   Cardinality({i \in DOMAIN AllEntries :
                                   /\ Parses(AllEntries[i])
                                   /\ InstanceOf(AllEntries[i]) = InstanceOf(entry)})
       /\ \A j \in DOMAIN setting_providers :
             \E entry \in GitHostingProviderConfig :
                /\ Parses(entry)
                /\ setting_providers[j].kind = entry.provider
                /\ setting_providers[j].name = entry.name
                /\ setting_providers[j].base_url = UrlParse(entry.base_url).url

\* The same entry declared globally and locally, next to an entry of another
\* kind with the same name: all three are in the registry.
C3_Witness ==
    /\ Resolved
    /\ Len(git_hosting_providers) = 2
    /\ Len(local_settings[1]) = 1
    /\ git_hosting_providers[1] = local_settings[1][1]
    /\ git_hosting_providers[2].name = git_hosting_providers[1].name
    /\ git_hosting_providers[2].provider # git_hosting_providers[1].provider
    /\ Len(setting_providers) = 3
    /\ setting_providers[1] = setting_providers[3]

\* C4: after a pass the registry is exactly the resolution of the current
\* lists, and every step that changes the registry replaces it by the whole
\* resolution of the lists of that moment: no state shows part of an old
\* registry next to part of a new one.
C4_RegistryReplacedWholesale ==
    /\ [](Resolved => /\ Len(setting_providers) = Len(ValidEntries(AllEntries))
                      /\ \A j \in DOMAIN setting_providers :
                            setting_providers[j] = InstanceOf(ValidEntries(AllEntries)[j]))
    /\ [][setting_providers' # setting_providers
             => /\ passes' >= 1
                /\ setting_providers' = ExpectedRegistry']_vars

\* A pass made after init has replaced the registry: the lists were resolved
\* while the observer was registered, and hold fewer valid entries than the bound.
C4_Witness ==
    /\ observing
    /\ ~pending
    /\ Resolved
    /\ git_hosting_providers = <<>>
    /\ local_settings[1] = <<>>
    /\ Len(local_settings[2]) = 1
    /\ Len(setting_providers) = 1

\* C5: once init has run and no notification is queued, the registry is the
\* resolution of the current lists; and after init every change of the lists
\* is followed by a pass.
C5_ResolverFollowsEveryChange ==
    /\ []((observing /\ ~pending) => (Resolved /\ setting_providers = ExpectedRegistry))
    /\ ((observing /\ ~Resolved) ~> Resolved)

\* Init has run, the lists changed afterwards and the notification was handled.
C5_Witness ==
    /\ observing
    /\ ~pending
    /\ passes = 1
    /\ setting_providers # <<>>

\* C6: a pass made when the lists have not changed since the previous pass
\* leaves the registry as that pass left it.
C6_SecondPassSameRegistry ==
    [][(passes >= 1 /\ passes' = 2 /\ pending /\ ~pending')
          => setting_providers' = setting_providers]_vars

\* Two passes in a row over unchanged, non-trivial lists.
C6_Witness ==
    /\ passes = 2
    /\ ~pending
    /\ Len(AllEntries) = 3
    /\ Len(setting_providers) = 2

(***************************************************************************)
(*              Properties of Breadcrumbs::render (SpecRender)             *)
(***************************************************************************)

\* The positions of the displayed list that hold the inserted marker.
EllipsisPositions == {i \in DOMAIN rendered : rendered[i] = Ellipsis}

\* C7 as stated: whatever the path, render displays at most MAX_SEGMENTS
\* entries, the ellipsis included.
C7_AtMostMaxSegmentsEntries ==
    render_input # Nothing => Len(rendered) <= MAX_SEGMENTS

\* C7, amended: render displays at most MAX_SEGMENTS segments of the path and
\* at most one ellipsis besides them, MAX_SEGMENTS + 1 entries in all.
C7_AtMostMaxSegmentsAndOneEllipsis ==
    render_input # Nothing =>
       /\ Len(rendered) - Cardinality(EllipsisPositions) <= MAX_SEGMENTS
       /\ Cardinality(EllipsisPositions) <= 1
       /\ Len(rendered) <= MAX_SEGMENTS + 1

\* A path of 14 segments was rendered as 12 of them and the ellipsis.
C7_Witness ==
    /\ render_input # Nothing
    /\ Len(render_input[1]) = 14
    /\ Len(rendered) = 13
    /\ Cardinality(EllipsisPositions) = 1

\* C8: a path of at most 12 segments is displayed unchanged, without ellipsis;
\* a longer one as its first 6 segments, one ellipsis, its last 6 segments.
\* The first and the last segment are kept, and the splice range lies within
\* the list, so the splice never panics (the empty path included).
C8_SixEllipsisSix ==
    /\ ~splice_panicked
    /\ render_input # Nothing =>
          LET input == render_input[1]
              n == Len(input)
          IN  /\ n <= 12 => (rendered = input /\ EllipsisPositions = {})
              /\ n > 12 =>
                    /\ Len(rendered) = 13
                    /\ \A i \in 1..6 : rendered[i] = input[i]
                    /\ rendered[7] = Ellipsis
                    /\ \A i \in 1..6 : rendered[7 + i] = input[n - 6 + i]
                    /\ EllipsisPositions = {7}
              /\ n >= 1 => (rendered[1] = input[1] /\ rendered[Len(rendered)] = input[n])
              /\ 0 <= prefix_end_ix(input)
              /\ prefix_end_ix(input) <= suffix_start_ix(input)
              /\ suffix_start_ix(input) <= n

\* A path of 13 segments was rendered: the ellipsis stands for one segment.
C8_Witness ==
    /\ render_input # Nothing
    /\ Len(render_input[1]) = 13
    /\ Len(rendered) = 13
    /\ rendered[7] = Ellipsis
    /\ rendered[8] = BreadcrumbText(8)

(***************************************************************************)
(*       Properties of set_active_pane_item and item events (SpecToolbar)  *)
(***************************************************************************)

\* C10: set_active_pane_item(None) returns Hidden, empties active_item and
\* keeps the subscription; set_active_pane_item(Some(item)) returns the item's
\* breadcrumb location and makes it the active item; a ChangeLocation is
\* emitted exactly for an UpdateBreadcrumbs event delivered while an item is
\* active, with that item's location; never more than one subscription is
\* alive.
C10_ChangeLocationOnlyWhileActive ==
    /\ [](/\ last_step.op = "set_active_pane_item" =>
                IF last_step.item = None
                THEN returned = "Hidden" /\ active_item = None
                ELSE /\ returned = item_location[last_step.item]
                     /\ active_item = last_step.item
                     /\ subscriptions = {last_step.item}
          /\ emitted # <<>> =>
                /\ last_step.op = "item_event"
                /\ last_step.event = "UpdateBreadcrumbs"
                /\ active_item # None
                /\ emitted = <<item_location[active_item]>>
          /\ (last_step.op = "item_event" /\ last_step.event = "UpdateBreadcrumbs"
                 /\ active_item # None)
                => emitted = <<item_location[active_item]>>
          /\ Cardinality(subscriptions) <= 1)
    /\ [][(last_step'.op = "set_active_pane_item" /\ last_step'.item = None)
             => subscriptions' = subscriptions]_vars

\* After set_active_pane_item(None) the item that was active sent
\* UpdateBreadcrumbs over the subscription still held: nothing was emitted.
C10_Witness ==
    /\ last_step.op = "item_event"
    /\ last_step.event = "UpdateBreadcrumbs"
    /\ last_step.item \in subscriptions
    /\ active_item = None
    /\ emitted = <<>>

(***************************************************************************)
(*        Properties of the diff view format selector (SpecSelector)       *)
(***************************************************************************)

\* The format at index ix of [Unified, AdditionsOnly, DeletionsOnly].
FormatAt(ix) ==
    CASE ix = 0 -> "Unified"
      [] ix = 1 -> "AdditionsOnly"
      [] ix = 2 -> "DeletionsOnly"

\* C9: selected_index is always one of 0, 1, 2, so confirm never indexes out of
\* bounds. A new selector selects the editor's current format;
\* set_selected_index(ix) selects min(ix, 2); confirm gives the editor the
\* selected format, that of min(last ix, 2) when an index was set, and emits
\* DismissEvent; dismissed emits DismissEvent and leaves the format alone.
C9_SelectedIndexInBounds ==
    /\ [](/\ selected_index \in 0..2
          /\ ~index_panicked
          /\ last_call = "new" => FormatAt(selected_index) = diff_view_format
          /\ last_call = "set_selected_index" =>
                selected_index = (IF last_ix[1] < 2 THEN last_ix[1] ELSE 2)
          /\ last_call = "confirm" =>
                /\ diff_view_format = FormatAt(selected_index)
                /\ last_ix # Nothing =>
                      diff_view_format = FormatAt(IF last_ix[1] < 2 THEN last_ix[1] ELSE 2))
    /\ [][/\ last_call' = "confirm" => dismiss_events' = dismiss_events + 1
          /\ last_call' = "dismissed" =>
                /\ dismiss_events' = dismiss_events + 1
                /\ diff_view_format' = diff_view_format]_vars

\* An index past the end was set, and confirm gave the editor the last format
\* although the selector had been opened on another one.
C9_Witness ==
    /\ last_call = "confirm"
    /\ last_ix = Some(4)
    /\ selected_index = 2
    /\ diff_view_format = "DeletionsOnly"
    /\ dismiss_events = 1

=============================================================================
